---- MODULE Spec2Model ----
(***************************************************************************)
(* Reward-issuance backend (src/index.js): the User collection of the      *)
(* store, the POST /api/spin handler, the bot /start handler and the       *)
(* daily reset timer.                                                      *)
(*                                                                         *)
(* Every handler is an async function; an action of the model is one       *)
(* store operation taking effect together with the synchronous             *)
(* continuation that runs after its await.  Time is a tick counter;        *)
(* DayLen ticks make one day.  Money is counted in thousandths             *)
(* (0.001 -> 1, 0.1 -> 100, 5 -> 5000).                                    *)
(***************************************************************************)
EXTENDS Integers, Sequences, FiniteSets, TLC

VARIABLES
    users,      \* the User collection: sequence of documents, _id = index
    now,        \* wall clock (ticks since the epoch)
    tz,         \* offset of the process's local time zone from UTC (ticks)
    req,        \* per request slot: position of the handler and its locals
    timer,      \* the armed timer of the reset scheduler
    inflight,   \* updateMany calls issued by the scheduler, not yet applied
    last,       \* the HTTP response sent last by the spin endpoint
    stats,      \* history: per identity, the spin results returned so far
    started,    \* history: number of requests accepted so far
    resets,     \* history: number of bulk resets applied to the store
    seed        \* history: the collection as it was when the process started

vars == <<users, now, tz, req, timer, inflight, last, stats, started, resets, seed>>

\* ------------------------------------------------------------------ bounds
NProcs == 2          \* request slots (concurrent handlers)
MaxReq == 2          \* requests accepted in one run
MaxTime == 6         \* last tick of the clock

\* --------------------------------------------------------------- constants
DayLen == 2          \* 24 * 60 * 60 * 1000 ms, in ticks
StartTime == 3       \* the tick at which the process starts
NoDate == -1         \* lastSpinDate: null
DefaultSpins == 3    \* schema default of spinsLeft
Allotment == 3       \* spinsLeft after a rollover or a reset

Ids == {"u1"}

\* the time zones the host can run in: UTC, and half a day ahead of UTC
Zones == {0, 1}
Procs == 1..NProcs

\* the reward table of the spin handler
rewards ==
    << [label |-> "0.001 ETH", value |-> 1],
       [label |-> "5 USDT", value |-> 5000],
       [label |-> "Try Again", value |-> 0],
       [label |-> "0.1 ETH", value |-> 100] >>

\* Date.prototype.toDateString(): the calendar date in the LOCAL time zone
DateString(t) == (t + tz) \div DayLen

\* the UTC calendar date of a timestamp (getUTCFullYear/Month/Date)
UTCDate(t) == t \div DayLen

\* new User({ telegramId }): the schema defaults
NewUser(id) ==
    [telegramId |-> id, spinsLeft |-> DefaultSpins, rewards |-> <<>>,
     balance |-> 0, lastSpinDate |-> NoDate]

\* User.findOne({ telegramId }): the _ids of the matching documents
Matches(id) == {i \in DOMAIN users : users[i].telegramId = id}

\* if (!user.lastSpinDate || user.lastSpinDate.toDateString() !== today.toDateString())
NeedsRollover(user, today) ==
    \/ user.lastSpinDate = NoDate
    \/ DateString(user.lastSpinDate) # DateString(today)

\* the rollover assignment of the spin handler
Rollover(user, today) ==
    IF NeedsRollover(user, today)
    THEN [user EXCEPT !.spinsLeft = Allotment, !.lastSpinDate = today]
    ELSE user

\* the quota check with the boundary off by one
NoSpinsLeftOffByOne(user) == user.spinsLeft < 0

\* if (user.spinsLeft <= 0) return "No spins left today"
NoSpinsLeft(user) == user.spinsLeft <= 0

\* user.spinsLeft -= 1
Decrement(user) == [user EXCEPT !.spinsLeft = @ - 1]

\* the grant with the zero-value outcome recorded like a reward
GrantAlsoZero(user, r) ==
    [user EXCEPT !.balance = @ + rewards[r].value,
                 !.rewards = Append(@, rewards[r].label)]

\* if (reward.value > 0) { user.balance += reward.value; user.rewards.push(label) }
Grant(user, r) ==
    IF rewards[r].value > 0
    THEN [user EXCEPT !.balance = @ + rewards[r].value,
                      !.rewards = Append(@, rewards[r].label)]
    ELSE user

\* the in-memory document of a granted spin, just before user.save()
Spun(user, today, r) == Grant(Decrement(Rollover(user, today)), r)

\* user.save() of a loaded document (snap as loaded, mem as it is now):
\* Mongoose sends an update of the modified paths only, $set for a changed
\* scalar and $push for the labels pushed.  spinsLeft assigned 3 and then 2
\* when 2 was loaded is sent or not, depending on the Mongoose version (keep).
Save(stored, snap, mem, keep) ==
    [stored EXCEPT
        !.spinsLeft = IF mem.spinsLeft # snap.spinsLeft \/ keep THEN mem.spinsLeft ELSE @,
        !.lastSpinDate = IF mem.lastSpinDate # snap.lastSpinDate
                         THEN mem.lastSpinDate ELSE @,
        !.balance = IF mem.balance # snap.balance THEN mem.balance ELSE @,
        !.rewards = @ \o SubSeq(mem.rewards, Len(snap.rewards) + 1, Len(mem.rewards))]

\* the Mongoose versions differ only when spinsLeft ends as it was loaded
Marks(snap, today) ==
    IF Decrement(Rollover(snap, today)).spinsLeft = snap.spinsLeft
    THEN BOOLEAN ELSE {TRUE}

\* the reset also clearing what the accounts have won
ResetAllWipe(coll, ts) ==
    [i \in DOMAIN coll |-> [coll[i] EXCEPT !.spinsLeft = Allotment, !.lastSpinDate = ts,
                                            !.balance = 0, !.rewards = <<>>]]

\* User.updateMany({}, { spinsLeft: 3, lastSpinDate: ts })
ResetAll(coll, ts) ==
    [i \in DOMAIN coll |-> [coll[i] EXCEPT !.spinsLeft = Allotment, !.lastSpinDate = ts]]

\* Date.UTC(y, m, d + 1): the next UTC midnight after t
NextUtcMidnight(t) == (UTCDate(t) + 1) * DayLen

Idle == [pc |-> "idle", kind |-> "none", tid |-> "none", oid |-> 0,
         snap |-> NewUser("none"), today |-> NoDate, since |-> NoDate,
         hit |-> NoDate]

\* a new request is served by the first free slot
Free(p) ==
    /\ req[p].pc = "idle"
    /\ \A q \in Procs : q < p => req[q].pc # "idle"

NoResponse == [kind |-> "none", reward |-> "none", balance |-> 0, spinsLeft |-> 0]

NoStats == [granted |-> 0, nospins |-> 0, sum |-> 0, day |-> 0]

\* the collections the process can find when it starts: empty, or one account
\* of u1 as earlier runs can have left it (its draws so far all "Try Again"):
\* rolled over at the last tick with one spin or none left, or used up a tick
\* earlier
Seeds ==
    {<<>>} \cup
    { <<[NewUser("u1") EXCEPT !.spinsLeft = k, !.lastSpinDate = StartTime]>> :
          k \in 0..1 } \cup
    { <<[NewUser("u1") EXCEPT !.spinsLeft = 0, !.lastSpinDate = StartTime - 1]>> }

\* spins granted on the current UTC day before the process started
GrantedBefore(coll, id) ==
    IF \E i \in DOMAIN coll :
          /\ coll[i].telegramId = id
          /\ coll[i].lastSpinDate # NoDate
          /\ UTCDate(coll[i].lastSpinDate) = UTCDate(StartTime)
    THEN Allotment - coll[CHOOSE i \in DOMAIN coll : coll[i].telegramId = id].spinsLeft
    ELSE 0

Init ==
    /\ users \in Seeds
    /\ seed = users
    /\ now = StartTime
    /\ tz \in Zones
    /\ req = [p \in Procs |-> Idle]
    /\ timer = [kind |-> "timeout", due |-> NextUtcMidnight(StartTime)]
    /\ inflight = {}
    /\ last = NoResponse
    /\ stats = [id \in Ids |-> [NoStats EXCEPT !.day = GrantedBefore(users, id)]]
    /\ started = 0
    /\ resets = 0

\* ------------------------------------------------------------ spin handler
\* the handler from the loaded document to the pending save.  Math.random()
\* depends on nothing and its value shows only once the save has landed, so
\* the draw is taken in SpinSave.
Compute(p, id, i, user, since) ==
    req' = [req EXCEPT ![p] = [pc |-> "saving", kind |-> "spin", tid |-> id,
                               oid |-> i, snap |-> user, today |-> now,
                               since |-> since, hit |-> NoDate]]

\* findOne found the account; rollover, quota check, draw, save issued
SpinFound(p, id) ==
    /\ Free(p)
    /\ started < MaxReq
    /\ \E i \in Matches(id) :
        /\ ~NoSpinsLeft(Rollover(users[i], now))
        /\ Compute(p, id, i, users[i], now)
    /\ started' = started + 1
    /\ UNCHANGED <<users, now, tz, timer, inflight, last, stats, resets, seed>>

\* findOne found the account and the quota is used up: "No spins left today"
SpinRefused(p, id) ==
    /\ Free(p)
    /\ started < MaxReq
    /\ \E i \in Matches(id) :
        /\ NoSpinsLeft(Rollover(users[i], now))
        /\ last' =
                      [kind |-> "NoSpinsLeft", reward |-> "none", balance |-> 0,
                       spinsLeft |-> Rollover(users[i], now).spinsLeft]
        /\ req' = [req EXCEPT ![p] = Idle]
    /\ stats' = [stats EXCEPT ![id].nospins = @ + 1]
    /\ started' = started + 1
    /\ UNCHANGED <<users, now, tz, timer, inflight, resets, seed>>

\* findOne found no account: new User({ telegramId }), save() issued
SpinMissing(p, id) ==
    /\ Free(p)
    /\ started < MaxReq
    /\ Matches(id) = {}
    /\ req' = [req EXCEPT ![p] = [Idle EXCEPT !.pc = "inserting", !.kind = "spin",
                                              !.tid = id, !.since = now]]
    /\ started' = started + 1
    /\ UNCHANGED <<users, now, tz, timer, inflight, last, stats, resets, seed>>

\* the insert takes effect; the handler goes on with the new document
SpinInsert(p) ==
    /\ req[p].pc = "inserting"
    /\ req[p].kind = "spin"
    /\ users' = Append(users, NewUser(req[p].tid))
    /\ Compute(p, req[p].tid, Len(users) + 1, NewUser(req[p].tid), req[p].since)
    /\ UNCHANGED <<now, tz, timer, inflight, last, stats, started, resets, seed>>

\* user.save() takes effect; res.json({ reward, balance, spinsLeft })
SpinSave(p) ==
    /\ req[p].pc = "saving"
    /\ \E r \in 1..Len(rewards), keep \in Marks(req[p].snap, req[p].today) :
       LET mem == Spun(req[p].snap, req[p].today, r)
       IN /\ users' = [users EXCEPT ![req[p].oid] = Save(@, req[p].snap, mem, keep)]
          /\ last' = [kind |-> "Granted", reward |-> rewards[r].label,
                      balance |-> mem.balance, spinsLeft |-> mem.spinsLeft]
          /\ stats' = [stats EXCEPT ![req[p].tid].granted = @ + 1,
                                    ![req[p].tid].sum = @ + rewards[r].value,
                                    ![req[p].tid].day = @ + 1]
    /\ req' = [req EXCEPT ![p] = Idle]
    /\ UNCHANGED <<now, tz, timer, inflight, started, resets, seed>>

\* ------------------------------------------------------------ bot /start
\* findOne found the account: the welcome reply
StartFound(p, id) ==
    /\ Free(p)
    /\ started < MaxReq
    /\ Matches(id) # {}
    /\ req' = [req EXCEPT ![p] = Idle]
    /\ started' = started + 1
    /\ UNCHANGED <<users, now, tz, timer, inflight, last, stats, resets, seed>>

\* findOne found no account: new User({ telegramId }), save() issued
StartMissing(p, id) ==
    /\ Free(p)
    /\ started < MaxReq
    /\ Matches(id) = {}
    /\ req' = [req EXCEPT ![p] = [Idle EXCEPT !.pc = "inserting", !.kind = "start",
                                              !.tid = id, !.since = now]]
    /\ started' = started + 1
    /\ UNCHANGED <<users, now, tz, timer, inflight, last, stats, resets, seed>>

\* the insert takes effect; the welcome reply
StartInsert(p) ==
    /\ req[p].pc = "inserting"
    /\ req[p].kind = "start"
    /\ users' = Append(users, NewUser(req[p].tid))
    /\ req' = [req EXCEPT ![p] = Idle]
    /\ UNCHANGED <<now, tz, timer, inflight, last, stats, started, resets, seed>>

\* ------------------------------------------------------- reset scheduler
\* the setTimeout callback runs: resetSpinsForAllUsers() issues updateMany
TimeoutFire ==
    /\ timer.kind = "timeout"
    /\ now >= timer.due
    /\ inflight' = inflight \cup {[ts |-> now, first |-> TRUE]}
    /\ timer' = [kind |-> "awaiting", due |-> timer.due]
    /\ UNCHANGED <<users, now, tz, req, last, stats, started, resets, seed>>

\* the setInterval callback runs: resetSpinsForAllUsers() issues updateMany
IntervalFire ==
    /\ timer.kind = "interval"
    /\ now >= timer.due
    /\ inflight' = inflight \cup {[ts |-> now, first |-> FALSE]}
    /\ timer' = [kind |-> "interval", due |-> now + DayLen]
    /\ UNCHANGED <<users, now, tz, req, last, stats, started, resets, seed>>

\* after the first reset returns: setInterval(resetSpinsForAllUsers, 24h)
Rearm(call) ==
    IF call.first THEN [kind |-> "interval", due |-> now + DayLen] ELSE timer

\* updateMany takes effect on every document
ResetApply(call) ==
    /\ call \in inflight
    /\ users' = ResetAll(users, call.ts)
    /\ req' = [p \in Procs |->
                 IF req[p].pc = "saving" THEN [req[p] EXCEPT !.hit = call.ts]
                 ELSE req[p]]
    /\ inflight' = inflight \ {call}
    /\ timer' = Rearm(call)
    /\ resets' = resets + 1
    /\ UNCHANGED <<now, tz, last, stats, started, seed>>

\* updateMany rejects (store unreachable): the error is logged
ResetFail(call) ==
    /\ call \in inflight
    /\ inflight' = inflight \ {call}
    /\ timer' = Rearm(call)
    /\ UNCHANGED <<users, now, tz, req, last, stats, started, resets, seed>>

\* ------------------------------------------------------------------ clock
\* one tick passes.  A tick is half a day: a due timer callback and a pending
\* updateMany run before the tick ends, and a request lasts less than a tick,
\* so it is in flight over one tick boundary at most.
Tick ==
    /\ now < MaxTime
    /\ timer.kind \in {"timeout", "interval"} => now < timer.due
    /\ inflight = {}
    /\ \A p \in Procs : req[p].pc # "idle" => req[p].since = now
    /\ now' = now + 1
    /\ stats' = [id \in Ids |->
                   IF UTCDate(now + 1) # UTCDate(now)
                   THEN [stats[id] EXCEPT !.day = 0] ELSE stats[id]]
    /\ UNCHANGED <<users, tz, req, timer, inflight, last, started, resets, seed>>

Next ==
    \/ \E p \in Procs, id \in Ids : SpinFound(p, id)
    \/ \E p \in Procs, id \in Ids : SpinRefused(p, id)
    \/ \E p \in Procs, id \in Ids : SpinMissing(p, id)
    \/ \E p \in Procs : SpinInsert(p)
    \/ \E p \in Procs : SpinSave(p)
    \/ \E p \in Procs, id \in Ids : StartFound(p, id)
    \/ \E p \in Procs, id \in Ids : StartMissing(p, id)
    \/ \E p \in Procs : StartInsert(p)
    \/ TimeoutFire
    \/ IntervalFire
    \/ \E call \in inflight : ResetApply(call)
    \/ \E call \in inflight : ResetFail(call)
    \/ Tick

Spec == Init /\ [][Next]_vars

\* ------------------------------------------------------------------ claims
Min(a, b) == IF a <= b THEN a ELSE b

\* no handler is in flight
AllIdle == \A p \in Procs : req[p].pc = "idle"

\* the spin handler of slot p completes with this step: its save lands
Saves(p) == req[p].pc = "saving" /\ req'[p].pc = "idle"

\* a timestamp lies on the current UTC calendar day
OnUtcDayOf(d, t) == d # NoDate /\ UTCDate(d) = UTCDate(t)

\* the values a reward can have
RewardValues == {rewards[r].value : r \in 1..Len(rewards)}

\* C1: N concurrent spins against one account that rolled over today and holds
\* k spins: once all have completed, exactly min(N, k) were Granted (and the
\* other N - min(N, k) got NoSpinsLeft).
C1_ExactlyMinGranted ==
    ( /\ AllIdle
      /\ Len(seed) = 1
      /\ seed[1].lastSpinDate = StartTime
      /\ now = StartTime
      /\ resets = 0 )
    => stats["u1"].granted
         = Min(stats["u1"].granted + stats["u1"].nospins, seed[1].spinsLeft)

\* C2: once the spin requests of an identity have completed, the persisted
\* balance of its account has grown by exactly the sum of the values of the
\* rewards returned as Granted.
C2_BalanceIsSumOfGrants ==
    (AllIdle /\ Len(users) = 1)
    => users[1].balance
         = (IF seed = <<>> THEN 0 ELSE seed[1].balance) + stats["u1"].sum

\* C3: at most one account exists per identity, in every reachable state.
C3_OneAccountPerIdentity ==
    \A id \in Ids : Cardinality(Matches(id)) <= 1

\* C4: a reset applied while a spin on an account with spinsRemaining = 1,
\* lastSpinDate today, is between its read and its write: after the spin's
\* write the account holds either the reset's pair (3, reset timestamp) or the
\* spin's pair (0, the spin's timestamp: its now, or the lastSpinDate it
\* loaded), never the spin's spinsRemaining with the reset's lastSpinDate.
C4_NoMixedState ==
    [][ \A p \in Procs :
          ( /\ Saves(p)
            /\ req[p].hit # NoDate
            /\ req[p].snap.spinsLeft = 1
            /\ OnUtcDayOf(req[p].snap.lastSpinDate, req[p].today)
            /\ DateString(req[p].snap.lastSpinDate) = DateString(req[p].today) )
          => \/ /\ users'[req[p].oid].spinsLeft = 3
                /\ users'[req[p].oid].lastSpinDate = req[p].hit
             \/ /\ users'[req[p].oid].spinsLeft = 0
                /\ users'[req[p].oid].lastSpinDate
                     \in {req[p].today, req[p].snap.lastSpinDate} ]_vars

\* C5: within one UTC calendar day no identity is Granted more than 3 spins.
C5_AtMostThreePerUtcDay ==
    \A id \in Ids : stats[id].day <= 3

\* C6: every account's persisted spinsRemaining is an integer from 0 to 3.
C6_SpinsInRange ==
    \A i \in DOMAIN users : users[i].spinsLeft \in 0..3

\* a granted spin has taken an account's last spin
C6_Witness ==
    /\ last.kind = "Granted"
    /\ last.spinsLeft = 0
    /\ \E i \in DOMAIN users : users[i].spinsLeft = 0

\* C7: no store write lowers a balance; a write that changes a balance raises
\* it by exactly the value of one reward.
C7_BalanceOnlyGrows ==
    [][ \A i \in DOMAIN users :
          \/ users'[i].balance = users[i].balance
          \/ (users'[i].balance - users[i].balance) \in (RewardValues \ {0}) ]_vars

\* C8: a spin (nobody else writing the account meanwhile) rolls over exactly
\* when the account's lastSpinDate is absent or on another UTC calendar date
\* than the spin's now; such a spin is Granted and leaves spinsRemaining = 2
\* and lastSpinDate = now, and a spin whose lastSpinDate is on the current UTC
\* date does not roll over.
C8_RolloverByUtcDate ==
    [][ /\ \A p \in Procs :
             (Saves(p) /\ users[req[p].oid] = req[p].snap) =>
                IF OnUtcDayOf(req[p].snap.lastSpinDate, req[p].today)
                THEN /\ req[p].snap.spinsLeft > 0
                     /\ last'.spinsLeft = req[p].snap.spinsLeft - 1
                ELSE /\ users'[req[p].oid].spinsLeft = 2
                     /\ users'[req[p].oid].lastSpinDate = req[p].today
        /\ stats'["u1"].nospins # stats["u1"].nospins
             => \E i \in DOMAIN users : OnUtcDayOf(users[i].lastSpinDate, now) ]_vars

\* C9: a spin on an account with spinsRemaining = 0 and lastSpinDate on the
\* current (UTC) day is not granted: it returns NoSpinsLeft with spinsLeft = 0
\* and changes no persisted field.
C9_ExhaustedSpinChangesNothing ==
    [][ /\ \A p \in Procs :
             (req[p].pc = "idle" /\ req'[p].pc = "saving")
             => ~( /\ req'[p].snap.spinsLeft = 0
                   /\ OnUtcDayOf(req'[p].snap.lastSpinDate, now) )
        /\ stats'["u1"].nospins # stats["u1"].nospins
             => (last'.kind = "NoSpinsLeft" /\ last'.spinsLeft = 0 /\ users' = users) ]_vars

\* C10: a granted spin whose account nobody else wrote between its read and
\* its write changes the account by exactly: spinsRemaining one below its
\* post-rollover value, balance raised by the drawn value, the label appended
\* to rewardHistory iff the value is above 0; the response carries the label,
\* the new balance and the new spinsRemaining; a fresh account's first spin
\* answers spinsLeft = 2.
C10_GrantedSpinEffect ==
    [][ \A p \in Procs :
          (Saves(p) /\ users[req[p].oid] = req[p].snap)
          => LET old == users[req[p].oid]
                 new == users'[req[p].oid]
             IN /\ \E r \in 1..4 :
                     /\ new.balance = old.balance + rewards[r].value
                     /\ new.rewards = IF rewards[r].value > 0
                                      THEN Append(old.rewards, rewards[r].label)
                                      ELSE old.rewards
                     /\ last'.reward = rewards[r].label
                /\ new.spinsLeft =
                     (IF new.lastSpinDate # old.lastSpinDate THEN 3 ELSE old.spinsLeft) - 1
                /\ new.telegramId = old.telegramId
                /\ last'.kind = "Granted"
                /\ last'.balance = new.balance
                /\ last'.spinsLeft = new.spinsLeft
                /\ old.lastSpinDate = NoDate => last'.spinsLeft = 2
                /\ \A i \in DOMAIN users : i # req[p].oid => users'[i] = users[i] ]_vars

\* a fresh identity's first spin has drawn "5 USDT"
C10_Witness ==
    /\ seed = <<>>
    /\ Len(users) = 1
    /\ last = [kind |-> "Granted", reward |-> "5 USDT", balance |-> 5000, spinsLeft |-> 2]
    /\ users[1].rewards = <<"5 USDT">>
    /\ users[1].balance = 5000
    /\ users[1].spinsLeft = 2

\* ------------------------------------------- spin handler, store failures
\* catch (err): res.status(500).json({ error: "Internal server error" })
StoreError == [kind |-> "StoreError", reward |-> "none", balance |-> 0, spinsLeft |-> 0]

\* User.findOne rejects: nothing was loaded, the catch block answers 500
SpinFindFail(p, id) ==
    /\ Free(p)
    /\ started < MaxReq
    /\ last' = StoreError
    /\ started' = started + 1
    /\ UNCHANGED <<users, now, tz, req, timer, inflight, stats, resets, seed>>

\* the save() of the new document rejects: no insert, the catch block answers 500
SpinInsertFail(p) ==
    /\ req[p].pc = "inserting"
    /\ req[p].kind = "spin"
    /\ last' = StoreError
    /\ req' = [req EXCEPT ![p] = Idle]
    /\ UNCHANGED <<users, now, tz, timer, inflight, stats, started, resets, seed>>

\* a failed save() that has nevertheless written the decrement
SpinSaveFailPartial(p) ==
    /\ req[p].pc = "saving"
    /\ users' = [users EXCEPT ![req[p].oid].spinsLeft =
                     Decrement(Rollover(req[p].snap, req[p].today)).spinsLeft]
    /\ last' = StoreError
    /\ req' = [req EXCEPT ![p] = Idle]
    /\ UNCHANGED <<now, tz, timer, inflight, stats, started, resets, seed>>

\* user.save() rejects: the update (one updateOne on the document) is not
\* applied, the in-memory changes are dropped, the catch block answers 500
SpinSaveFail(p) ==
    /\ req[p].pc = "saving"
    /\ last' = StoreError
    /\ req' = [req EXCEPT ![p] = Idle]
    /\ UNCHANGED <<users, now, tz, timer, inflight, stats, started, resets, seed>>

\* the spin endpoint with a store whose operations can fail
NextStore ==
    \/ \E p \in Procs, id \in Ids : SpinFound(p, id)
    \/ \E p \in Procs, id \in Ids : SpinRefused(p, id)
    \/ \E p \in Procs, id \in Ids : SpinMissing(p, id)
    \/ \E p \in Procs : SpinInsert(p)
    \/ \E p \in Procs : SpinSave(p)
    \/ \E p \in Procs, id \in Ids : SpinFindFail(p, id)
    \/ \E p \in Procs : SpinInsertFail(p)
    \/ \E p \in Procs : SpinSaveFail(p)

SpecStore == Init /\ [][NextStore]_vars

MaxFields == 2       \* fields of a payload besides hash

\* crypto.createHash("sha256").update(BOT_TOKEN).digest(): the key, as a tag
SecretKey == 1

Key_hash == <<104, 97, 115, 104>>                    \* "hash"
Key_user == <<117, 115, 101, 114>>                   \* "user"
Key_id == <<105, 100>>                               \* "id"
Key_user_id == <<117, 115, 101, 114, 95, 105, 100>>  \* "user_id"
Key_id2 == <<105, 100, 50>>                          \* "id2"
Text_u1 == <<117, 49>>                               \* "u1"
Text_u2 == <<117, 50>>                               \* "u2"
Text_x == <<120>>                                    \* "x"
Json_id_u1 == <<123, 34, 105, 100, 34, 58, 34, 117, 49, 34, 125>>  \* {"id":"u1"}
Json_empty == <<123, 125>>                           \* {}
Json_broken == <<123>>                               \* {
EqualsSign == <<61>>                                 \* "="
LineFeed == <<10>>                                   \* "\n"

\* null, undefined and "": the values the handler's tests take as false
Falsy == <<>>

\* the strings in the order of Array.prototype.sort(): by UTF-16 code units
RECURSIVE LexLess(_, _)
LexLess(a, b) ==
    IF b = <<>> THEN FALSE
    ELSE IF a = <<>> THEN TRUE
    ELSE IF Head(a) # Head(b) THEN Head(a) < Head(b)
    ELSE LexLess(Tail(a), Tail(b))

RECURSIVE Insert(_, _)
Insert(x, sorted) ==
    IF sorted = <<>> THEN <<x>>
    ELSE IF LexLess(Head(sorted), x) THEN <<Head(sorted)>> \o Insert(x, Tail(sorted))
    ELSE <<x>> \o sorted

\* entries kept in the order received: no sort()
RECURSIVE Unsorted(_)
Unsorted(lines) ==
    IF lines = <<>> THEN <<>> ELSE <<Head(lines)>> \o Unsorted(Tail(lines))

\* .sort()
RECURSIVE Sort(_)
Sort(lines) ==
    IF lines = <<>> THEN <<>> ELSE Insert(Head(lines), Sort(Tail(lines)))

\* .join("\n")
RECURSIVE Join(_)
Join(lines) ==
    IF lines = <<>> THEN <<>>
    ELSE IF Len(lines) = 1 THEN Head(lines)
    ELSE Head(lines) \o LineFeed \o Join(Tail(lines))

\* ([key, val]) => `${key}=${val}`
Line(f) == f.key \o EqualsSign \o f.val

\* parsed.get(key): the value of the first entry with the key, or null
RECURSIVE Get(_, _)
Get(d, key) ==
    IF d = <<>> THEN Falsy
    ELSE IF Head(d).key = key THEN Head(d).val
    ELSE Get(Tail(d), key)

Has(d, key) == \E i \in DOMAIN d : d[i].key = key

\* parsed.delete("hash"): every entry with the key goes
Delete(d, key) == SelectSeq(d, LAMBDA f : f.key # key)

\* [...parsed.entries()].map(...).sort().join("\n")
DataCheckString(d) == Join(Sort([i \in DOMAIN d |-> Line(d[i])]))

\* crypto.createHmac("sha256", key).update(data).digest("hex"), as the text
\* that names the key and the data: different inputs, different digests
HmacHex(key, data) == <<key>> \o data

\* function verifyTelegram(initData)
verifyTelegram(initData) ==
    IF initData = <<>> THEN FALSE
    ELSE IF Get(initData, Key_hash) = Falsy THEN FALSE
    ELSE HmacHex(SecretKey, DataCheckString(Delete(initData, Key_hash)))
             = Get(initData, Key_hash)

\* JSON.parse(userStr), for the user values a payload carries here: the
\* object with its id, or the exception
JsonParse(t) ==
    IF t = Json_id_u1 THEN [threw |-> FALSE, id |-> Text_u1]
    ELSE IF t = Json_empty THEN [threw |-> FALSE, id |-> Falsy]
    ELSE [threw |-> TRUE, id |-> Falsy]

\* parsed.get("id") || parsed.get("user_id") || parsed.get("user_id")
FlatId(d) == IF Get(d, Key_id) # Falsy THEN Get(d, Key_id) ELSE Get(d, Key_user_id)

\* function extractTelegramId(initData): the id, or null
extractTelegramId(initData) ==
    LET userStr == Get(initData, Key_user)
    IN IF userStr # Falsy /\ JsonParse(userStr).threw THEN Falsy
       ELSE IF userStr # Falsy /\ JsonParse(userStr).id # Falsy THEN JsonParse(userStr).id
       ELSE FlatId(initData)

\* the telegramId string as the store holds it
TelegramId(t) == IF t = Text_u1 THEN "u1" ELSE IF t = Text_u2 THEN "u2" ELSE "other"

\* the entries a payload is made of, besides hash
Pool ==
    { [key |-> Key_user, val |-> Json_id_u1],
      [key |-> Key_user, val |-> Json_empty],
      [key |-> Key_user, val |-> Json_broken],
      [key |-> Key_id, val |-> Text_u2],
      [key |-> Key_id2, val |-> Text_x] }

Bodies ==
    UNION { { b \in [1..n -> Pool] : \A i, j \in 1..n : i # j => b[i] # b[j] } :
            n \in 0..MaxFields }

\* the digest with its last position altered
Altered(h) == [h EXCEPT ![Len(h)] = @ + 1]

\* the hash values a client sends with a body: the right one, one altered in
\* one position, the empty one
Hashes(b) ==
    { HmacHex(SecretKey, DataCheckString(b)),
      Altered(HmacHex(SecretKey, DataCheckString(b))),
      Falsy }

\* the initData values of the requests: none, a body without hash, a body
\* followed by hash
Payloads ==
    Bodies \cup { b \o <<[key |-> Key_hash, val |-> h]>> : <<b, h>> \in
                    UNION { {b2} \X Hashes(b2) : b2 \in Bodies } }

\* res.status(status).json({ error }): a request refused before the store is
\* touched.  initData and dataCheckString are history: what was refused.
Refusal(error, status, d) ==
    [kind |-> error, reward |-> "none", balance |-> 0, spinsLeft |-> 0,
     status |-> status, initData |-> d,
     dataCheckString |-> DataCheckString(Delete(d, Key_hash))]

Refuse(p, error, status, d) ==
    /\ last' = Refusal(error, status, d)
    /\ started' = started + 1
    /\ UNCHANGED <<users, now, tz, req, timer, inflight, stats, resets, seed>>

\* if (!initData) return res.status(400).json({ error: "Missing initData" })
PostMissing(p, d) ==
    /\ Free(p)
    /\ started < MaxReq
    /\ d = <<>>
    /\ Refuse(p, "Missing initData", 400, d)

\* if (!verifyTelegram(initData)) return res.status(403)...
PostInvalid(p, d) ==
    /\ Free(p)
    /\ started < MaxReq
    /\ d # <<>>
    /\ ~verifyTelegram(d)
    /\ Refuse(p, "Invalid Telegram data", 403, d)

\* if (!telegramId) return res.status(400).json({ error: "Cannot determine user id" })
PostNoId(p, d) ==
    /\ Free(p)
    /\ started < MaxReq
    /\ d # <<>>
    /\ verifyTelegram(d)
    /\ extractTelegramId(d) = Falsy
    /\ Refuse(p, "Cannot determine user id", 400, d)

\* the payload passes: the handler goes on to findOne with the identity
PostSpin(p, d) ==
    /\ Free(p)
    /\ started < MaxReq
    /\ d # <<>>
    /\ verifyTelegram(d)
    /\ extractTelegramId(d) # Falsy
    /\ LET id == TelegramId(extractTelegramId(d))
       IN \/ SpinFound(p, id)
          \/ SpinRefused(p, id)
          \/ SpinMissing(p, id)

\* POST /api/spin with the body { initData: d }
Post(p, d) == PostMissing(p, d) \/ PostInvalid(p, d) \/ PostNoId(p, d) \/ PostSpin(p, d)

NextAuth ==
    \/ \E p \in Procs : Free(p) /\ started < MaxReq /\ \E d \in Payloads : PostMissing(p, d)
    \/ \E p \in Procs : Free(p) /\ started < MaxReq /\ \E d \in Payloads : PostInvalid(p, d)
    \/ \E p \in Procs : Free(p) /\ started < MaxReq /\ \E d \in Payloads : PostNoId(p, d)
    \/ \E p \in Procs : Free(p) /\ started < MaxReq /\ \E d \in Payloads : PostSpin(p, d)
    \/ \E p \in Procs : SpinInsert(p)
    \/ \E p \in Procs : SpinSave(p)

\* the process starts with an empty collection, on a host on UTC
InitAuth == Init /\ users = <<>> /\ tz = 0

SpecAuth == InitAuth /\ [][NextAuth]_vars

\* the responses that refuse a request before the store is touched
Refusals == {"Missing initData", "Invalid Telegram data", "Cannot determine user id"}

\* the identity a payload encodes: the id of the nested user object when that
\* resolves, else the flat id field
EncodedIdentity(d) ==
    LET userStr == Get(d, Key_user)
    IN IF userStr # Falsy /\ ~JsonParse(userStr).threw /\ JsonParse(userStr).id # Falsy
       THEN JsonParse(userStr).id
       ELSE FlatId(d)

\* the request of slot p proceeds to the store with identity id
Proceeds(p, id) == SpinFound(p, id) \/ SpinRefused(p, id) \/ SpinMissing(p, id)

\* the hash of the payload is the HMAC of the check-string of its other fields
HashRight(d) ==
    /\ Has(d, Key_hash)
    /\ Get(d, Key_hash) = HmacHex(SecretKey, DataCheckString(Delete(d, Key_hash)))

\* the orders in which the entries of b can arrive
Perms(b) ==
    { [i \in DOMAIN b |-> b[f[i]]] :
        f \in { g \in [DOMAIN b -> DOMAIN b] : \A i, j \in DOMAIN b : i # j => g[i] # g[j] } }

\* the payloads with the non-hash entries of d in any order, hash as in d
Permuted(d) ==
    { b \o SelectSeq(d, LAMBDA f : f.key = Key_hash) : b \in Perms(Delete(d, Key_hash)) }

\* C12: a non-empty payload without a hash field is refused with HTTP 400
\* (Malformed), not with the 403 of an invalid signature, and no account is
\* created or changed.
C12_NoHashIsMalformed ==
    [][ \A p \in Procs : \A d \in Payloads :
          (Post(p, d) /\ d # <<>> /\ ~Has(d, Key_hash))
          => /\ last'.kind \in Refusals
             /\ last'.status = 400
             /\ users' = users
             /\ req' = req ]_vars

\* C13: a payload whose hash is the HMAC of the check-string of its other
\* fields passes verification, and the request proceeds with the identity the
\* payload encodes; a payload whose hash differs from it is refused with 403
\* (InvalidSignature) and no account is read, created or changed.
C13_SignatureDecides ==
    [][ \A p \in Procs : \A d \in Payloads :
          (Post(p, d) /\ Has(d, Key_hash))
          => IF HashRight(d)
             THEN /\ ~PostInvalid(p, d)
                  /\ EncodedIdentity(d) # Falsy
                       => Proceeds(p, TelegramId(EncodedIdentity(d)))
             ELSE /\ last'.kind \in Refusals
                  /\ last'.status = 403
                  /\ users' = users
                  /\ req' = req ]_vars

\* ---------------------------------------------- verifyTelegram on its own
\* one call verifyTelegram(d): the check-string it computed (none when it
\* returned before computing one) and the verdict it returned
VerifyCall(d) ==
    /\ last' = [kind |-> "verifyTelegram", reward |-> "none", balance |-> 0,
                spinsLeft |-> 0, initData |-> d,
                dataCheckString |-> IF d = <<>> \/ Get(d, Key_hash) = Falsy
                                    THEN <<>>
                                    ELSE DataCheckString(Delete(d, Key_hash)),
                ok |-> verifyTelegram(d)]
    /\ UNCHANGED <<users, now, tz, req, timer, inflight, stats, started, resets, seed>>

NextVerify == \E d \in Payloads : VerifyCall(d)

SpecVerify == InitAuth /\ [][NextVerify]_vars

\* C14: the check-string and the verdict of the verification do not depend on
\* the order of the fields: every payload with the non-hash entries of the
\* verified payload in another order (hash as it is) gets the same verdict,
\* and the same check-string where one is computed.
C14_OrderIndependent ==
    last.kind = "verifyTelegram"
    => \A d \in Permuted(last.initData) :
          /\ verifyTelegram(d) = last.ok
          /\ Get(d, Key_hash) # Falsy
               => DataCheckString(Delete(d, Key_hash)) = last.dataCheckString

\* a correctly signed payload was accepted whose entries arrived in another
\* order than the check-string lists them
C14_Witness ==
    /\ last.kind = "verifyTelegram"
    /\ last.ok
    /\ Len(last.initData) = 3
    /\ last.initData[1] = [key |-> Key_user, val |-> Json_id_u1]
    /\ last.initData[2] = [key |-> Key_id, val |-> Text_u2]
    /\ last.dataCheckString = Key_id \o EqualsSign \o Text_u2 \o LineFeed
                                \o Key_user \o EqualsSign \o Json_id_u1

\* the entries of b are in non-decreasing order of their keys
KeySorted(b) ==
    \A i, j \in DOMAIN b : i < j => ~LexLess(b[j].key, b[i].key)

\* C17: the check-string lists the non-hash fields as key=value lines in
\* lexicographic order of the keys alone, also when one key is a prefix of
\* another and the longer key continues with a character below '='.
C17_SortedByKey ==
    (last.kind = "verifyTelegram" /\ Get(last.initData, Key_hash) # Falsy)
    => \E b \in Perms(Delete(last.initData, Key_hash)) :
          /\ KeySorted(b)
          /\ last.dataCheckString = Join([i \in DOMAIN b |-> Line(b[i])])

\* C18: a verified payload yields the id of the nested user object when that
\* resolves to one, else the flat id (also when the user field is absent,
\* unparseable or without id); the request is refused with 400 "Cannot
\* determine user id" only when neither yields an id.
C18_NestedThenFlat ==
    [][ \A p \in Procs : \A d \in Payloads :
          (Post(p, d) /\ verifyTelegram(d))
          => IF EncodedIdentity(d) = Falsy
             THEN /\ last'.kind = "Cannot determine user id"
                  /\ last'.status = 400
                  /\ users' = users /\ req' = req
             ELSE /\ ~PostNoId(p, d)
                  /\ Proceeds(p, TelegramId(EncodedIdentity(d))) ]_vars

\* ------------------------------------------------- the scheduler on its own
\* the accounts the scheduler can find: none, one, or two, left by earlier
\* runs with spins used and rewards won on different days
Won == [NewUser("u1") EXCEPT !.spinsLeft = 0, !.lastSpinDate = 0, !.balance = 101,
                             !.rewards = <<"0.1 ETH", "0.001 ETH">>]

Fresh == NewUser("u2")

Partly == [NewUser("u2") EXCEPT !.spinsLeft = 2, !.lastSpinDate = 1, !.balance = 5000,
                                !.rewards = <<"5 USDT">>]

SchedSeeds == { <<>>, <<Won>>, <<Won, Fresh>>, <<Won, Partly>> }

\* the process starts at any tick up to StartTime, at a midnight or between
InitSched ==
    /\ users \in SchedSeeds
    /\ seed = users
    /\ now \in 0..StartTime
    /\ tz = 0
    /\ req = [p \in Procs |-> Idle]
    /\ timer = [kind |-> "timeout", due |-> NextUtcMidnight(now)]
    /\ inflight = {}
    /\ last = NoResponse
    /\ stats = [id \in Ids |-> NoStats]
    /\ started = 0
    /\ resets = 0

\* a tick passes while updateMany is pending (slow or unreachable store); a
\* due timer callback runs before the tick ends
Wait ==
    /\ now < MaxTime
    /\ inflight # {}
    /\ timer.kind \in {"timeout", "interval"} => now < timer.due
    /\ now' = now + 1
    /\ UNCHANGED <<users, tz, req, timer, inflight, last, stats, started, resets, seed>>

NextSched ==
    \/ TimeoutFire
    \/ IntervalFire
    \/ \E call \in inflight : ResetApply(call)
    \/ \E call \in inflight : ResetFail(call)
    \/ Tick
    \/ Wait

SpecSched == InitSched /\ [][NextSched]_vars

\* C15: every invocation of the global reset happens at a UTC midnight (the
\* first at the midnight the one-shot timer was armed for, the later ones a
\* whole number of days after it), whenever the process starts and however
\* long a reset call takes.
C15_FiresAtUtcMidnight ==
    [][ \A call \in inflight' \ inflight :
          /\ call.ts % DayLen = 0
          /\ call.first => call.ts = timer.due ]_vars

\* C16: a reset call that fails does not stop the scheduler: once it has
\* failed the recurring timer is armed, the next firing is due exactly one
\* day after the failed firing, and no other reset call is issued instead.
C16_FailureKeepsSchedule ==
    [][ \A call \in inflight :
          ResetFail(call)
          => /\ timer'.kind = "interval"
             /\ timer'.due = call.ts + DayLen
             /\ inflight' \subseteq inflight
             /\ users' = users ]_vars

\* C19: a reset that succeeds sets spinsLeft to 3 and lastSpinDate to the
\* timestamp of the reset call on every account, whatever they were, changes
\* no telegramId, balance or rewards, and adds or removes no account.
C19_ResetFrame ==
    [][ \A call \in inflight :
          ResetApply(call)
          => /\ DOMAIN users' = DOMAIN users
             /\ \A i \in DOMAIN users :
                   /\ users'[i].spinsLeft = 3
                   /\ users'[i].lastSpinDate = call.ts
                   /\ users'[i].telegramId = users[i].telegramId
                   /\ users'[i].balance = users[i].balance
                   /\ users'[i].rewards = users[i].rewards ]_vars

\* one reset has been applied to two accounts with different spins, dates,
\* balances and histories: both now have 3 spins and the reset's timestamp
C19_Witness ==
    /\ seed = <<Won, Partly>>
    /\ resets = 1
    /\ inflight = {}
    /\ users = <<[Won EXCEPT !.spinsLeft = 3, !.lastSpinDate = 2],
                 [Partly EXCEPT !.spinsLeft = 3, !.lastSpinDate = 2]>>

\* the value of a reward label
ValueOf(label) ==
    rewards[CHOOSE r \in 1..Len(rewards) : rewards[r].label = label].value

\* the sum of the values of the labels of a history
RECURSIVE SumOfValues(_)
SumOfValues(history) ==
    IF history = <<>> THEN 0
    ELSE ValueOf(Head(history)) + SumOfValues(Tail(history))

\* history a is the beginning of history b
IsPrefix(a, b) == Len(a) <= Len(b) /\ SubSeq(b, 1, Len(a)) = a

\* the stored balance of every account is the sum of the values of the labels
\* in its history
BalanceMatchesHistory ==
    [][ \A i \in DOMAIN users' :
          users'[i].balance = SumOfValues(users'[i].rewards) ]_vars

\* the history of every account only grows at its end
HistoryAppendOnly ==
    [][ \A i \in DOMAIN users :
          /\ i \in DOMAIN users'
          /\ IsPrefix(users[i].rewards, users'[i].rewards) ]_vars

\* C20: whatever spins and resets interleave, every write to the collection
\* leaves each account with a balance equal to the sum of the values of the
\* labels in its rewards, and with its earlier rewards kept, in place, as the
\* beginning of its rewards.
C20_BalanceIsSumOfHistory ==
    [][ /\ \A i \in DOMAIN users' :
              users'[i].balance = SumOfValues(users'[i].rewards)
        /\ \A i \in DOMAIN users :
              /\ i \in DOMAIN users'
              /\ IsPrefix(users[i].rewards, users'[i].rewards) ]_vars

====
